---- MODULE Spec2Model ----
(***************************************************************************)
(* Model of the alignment / distance core of PAD-Genomic_Sequence_Clustering *)
(*   src/P2.py : pair enumeration, Needleman-Wunsch fill and traceback,      *)
(*               align_sequences_with_DP, AlignByDP                          *)
(*   src/P3.py : validate_alignment_map, compute_dist, ComputeDistMatrix     *)
(*                                                                           *)
(* A Python string is a sequence of one-character strings.  A Python dict    *)
(* is a sequence of <<key, value>> items in insertion order.  The numpy      *)
(* score matrix holds integer-valued float64 numbers, modelled as integers.  *)
(* A float returned by compute_dist is rounded to the nearest 1e-6 and held  *)
(* as an integer number of 1e-6 units.                                       *)
(***************************************************************************)
EXTENDS Integers, Sequences, FiniteSets, TLC

\* ---------------------------------------------------------------- bounds
MaxLen == 3
MaxSeqs == 3
MaxSeqLen == 2
DistLen == 4
MaxId == 3
MaxEntries == 3
LogTerms == 12

\* ------------------------------------------------------- program constants
match == 5
mismatch == 0 - 2
gap == 0 - 6
DIAGONAL == 0
UP == 1
LEFT == 2

Bases == {"A", "C", "G", "T"}

VARIABLES
    \* --- P2: one pairwise alignment
    seq1, seq2,          \* the two input sequences
    call,                \* entry point used by the caller
    pc,                  \* position in the call
    score, tbm,          \* the score matrix and the direction matrix
    i, j,                \* traceback cursor
    aligned1, aligned2,  \* traceback output lists (built backwards)
    result,              \* returned pair of strings
    error                \* exception raised, "" if none

VARIABLES
    \* --- P2: AlignByDP over a list of (label, sequence) pairs
    list_of_pairs,       \* the argument
    sequences,           \* the cleaned list (input_check)
    pairs,               \* generate_all_pairs(sequences)
    pidx,                \* position of the for loop in pairs
    results,             \* the dict being built
    opc,                 \* position in the call
    oerror,              \* exception raised, "" if none
    validated            \* outcome of validate_alignment_map on the returned dict

VARIABLES
    \* --- P3: compute_dist
    aligned_a, aligned_b,   \* the two arguments
    col,                    \* next column of the zip loop
    comparable, mismatches, \* the two counters
    dpc,                    \* position in the call
    dist                    \* outcome: [branch, value], value in 1e-6 units

VARIABLES
    \* --- P3: ComputeDistMatrix (validate_alignment_map, then the matrix)
    item,                \* the dict item the validation loop is processing
    seen,                \* raw keys the loop has been given so far
    normalised,          \* the normalised dict
    identifiers,         \* the set of identifiers
    ids_sorted,          \* sorted(identifiers)
    matrix,              \* the distance matrix
    widx,                \* position of the matrix loop in normalised
    mpc                  \* position in the call

alignVars == <<seq1, seq2, call, pc, score, tbm, i, j, aligned1, aligned2, result, error>>
allVars == <<list_of_pairs, sequences, pairs, pidx, results, opc, oerror, validated>>
distVars == <<aligned_a, aligned_b, col, comparable, mismatches, dpc, dist>>
matVars == <<item, seen, normalised, identifiers, ids_sorted, matrix, widx, mpc>>
vars == <<alignVars, allVars, distVars, matVars>>

\* ------------------------------------------------------------ helpers
Max3(a, b, c) == IF a >= b /\ a >= c THEN a ELSE IF b >= c THEN b ELSE c

Reverse(s) == [k \in 1..Len(s) |-> s[Len(s) + 1 - k]]

SeqsUpTo(S, n) == UNION {[1..k -> S] : k \in 1..n}

\* ------------------------------------------------- P2.fill_matrix
\* lines 69-80: zero matrices, then first column and first row
InitScore(m, n) ==
    [r \in 0..m |-> [c \in 0..n |->
        IF c = 0 THEN r * gap ELSE IF r = 0 THEN c * gap ELSE 0]]

InitDirection(m, n) ==
    [r \in 0..m |-> [c \in 0..n |->
        IF c = 0 /\ r >= 1 THEN UP ELSE IF r = 0 /\ c >= 1 THEN LEFT ELSE 0]]

\* lines 85-91: the three candidates of cell (r, c)
DiagCandidate(s1, s2, sc, r, c) ==
    IF s1[r] = s2[c] THEN sc[r - 1][c - 1] + match
                     ELSE sc[r - 1][c - 1] + mismatch
UpCandidate(sc, r, c) == sc[r - 1][c] + gap
LeftCandidate(sc, r, c) == sc[r][c - 1] + gap

\* a plausible slip: the up candidate tested before the diagonal one
DirectionUpFirst(max_score, diag, up, left) ==
    IF max_score = up THEN UP
    ELSE IF max_score = diag THEN DIAGONAL
    ELSE LEFT

\* lines 97-102: the stored direction
Direction(max_score, diag, up, left) ==
    IF max_score = diag THEN DIAGONAL
    ELSE IF max_score = up THEN UP
    ELSE LEFT

\* lines 85-102: one iteration of the inner loop
FillCell(s1, s2, st, r, c) ==
    LET diag == DiagCandidate(s1, s2, st.score, r, c)
        up == UpCandidate(st.score, r, c)
        left == LeftCandidate(st.score, r, c)
        max_score == Max3(diag, up, left)
    IN [score |-> [st.score EXCEPT ![r][c] = max_score],
        traceback |-> [st.traceback EXCEPT ![r][c] = Direction(max_score, diag, up, left)]]

\* lines 83-84: the two nested loops, row by row
RECURSIVE FillFrom(_, _, _, _, _)
FillFrom(s1, s2, st, r, c) ==
    IF r > Len(s1) THEN st
    ELSE IF c > Len(s2) THEN FillFrom(s1, s2, st, r + 1, 1)
    ELSE FillFrom(s1, s2, FillCell(s1, s2, st, r, c), r, c + 1)

fill_matrix(s1, s2) ==
    FillFrom(s1, s2,
             [score |-> InitScore(Len(s1), Len(s2)),
              traceback |-> InitDirection(Len(s1), Len(s2))],
             1, 1)

\* ------------------------------------------------- P2.traceback
\* lines 131-151: which branch of the loop body runs at cursor (r, c)
TraceBranch(d, r, c) ==
    IF r = 0 THEN "top"
    ELSE IF c = 0 THEN "edge"
    ELSE IF d[r][c] = 0 THEN "diag"
    ELSE IF d[r][c] = 1 THEN "up"
    ELSE "left"

\* lines 131-151: one iteration of the while loop
TraceStep(s1, s2, d, st) ==
    LET b == TraceBranch(d, st.i, st.j)
    IN IF b = "top" THEN
           [i |-> st.i, j |-> st.j - 1,
            aligned1 |-> Append(st.aligned1, "-"),
            aligned2 |-> Append(st.aligned2, s2[st.j])]
       ELSE IF b = "edge" THEN
           [i |-> st.i - 1, j |-> st.j,
            aligned1 |-> Append(st.aligned1, s1[st.i]),
            aligned2 |-> Append(st.aligned2, "-")]
       ELSE IF b = "diag" THEN
           [i |-> st.i - 1, j |-> st.j - 1,
            aligned1 |-> Append(st.aligned1, s1[st.i]),
            aligned2 |-> Append(st.aligned2, s2[st.j])]
       ELSE IF b = "up" THEN
           [i |-> st.i - 1, j |-> st.j,
            aligned1 |-> Append(st.aligned1, s1[st.i]),
            aligned2 |-> Append(st.aligned2, "-")]
       ELSE
           [i |-> st.i, j |-> st.j - 1,
            aligned1 |-> Append(st.aligned1, "-"),
            aligned2 |-> Append(st.aligned2, s2[st.j])]

\* line 130: the while loop
RECURSIVE TraceLoop(_, _, _, _)
TraceLoop(s1, s2, d, st) ==
    IF st.i > 0 \/ st.j > 0 THEN TraceLoop(s1, s2, d, TraceStep(s1, s2, d, st))
    ELSE st

\* lines 126-156: the whole function
traceback(s1, s2, d) ==
    LET st == TraceLoop(s1, s2, d,
                        [i |-> Len(s1), j |-> Len(s2), aligned1 |-> <<>>, aligned2 |-> <<>>])
    IN <<Reverse(st.aligned1), Reverse(st.aligned2)>>

\* ------------------------------------------------- P2.align_sequences_with_DP
\* line 174 assigns the second result of fill_matrix to the name "traceback",
\* which makes that name local to the function: at line 175 the callee named
\* "traceback" is the direction matrix, not the module-level function.
TracebackNameInAlign == "ndarray"

IsCallable(kind) == kind = "function"

\* line 175: the call of whatever the local name "traceback" holds
InvokeTracebackName(s1, s2, d) ==
    IF IsCallable(TracebackNameInAlign)
    THEN [ok |-> TRUE, value |-> traceback(s1, s2, d), error |-> ""]
    ELSE [ok |-> FALSE, value |-> <<>>, error |-> "TypeError"]

\* lines 174-175: outcome of the call
align_sequences_with_DP(s1, s2) ==
    InvokeTracebackName(s1, s2, fill_matrix(s1, s2).traceback)

\* ------------------------------------------------- pairwise alignment machine
\* the parts of the state a run does not use
IdleAlign ==
    /\ seq1 = <<>> /\ seq2 = <<>> /\ call = "none" /\ pc = "unused"
    /\ score = <<>> /\ tbm = <<>> /\ i = 0 /\ j = 0
    /\ aligned1 = <<>> /\ aligned2 = <<>> /\ result = <<>> /\ error = ""

IdleAll ==
    /\ list_of_pairs = <<>> /\ sequences = <<>> /\ pairs = <<>> /\ pidx = 0
    /\ results = <<>> /\ opc = "unused" /\ oerror = "" /\ validated = <<>>

IdleDist ==
    /\ aligned_a = <<>> /\ aligned_b = <<>> /\ col = 0
    /\ comparable = 0 /\ mismatches = 0 /\ dpc = "unused" /\ dist = <<>>

IdleMatrix ==
    /\ item = <<>> /\ seen = {} /\ normalised = <<>> /\ identifiers = {}
    /\ ids_sorted = <<>> /\ matrix = <<>> /\ widx = 0 /\ mpc = "unused"

InitAlign ==
    /\ IdleAll /\ IdleDist /\ IdleMatrix
    /\ seq1 \in SeqsUpTo(Bases, MaxLen)
    /\ seq2 \in SeqsUpTo(Bases, MaxLen)
    /\ call = "none"
    /\ pc = "idle"
    /\ score = <<>>
    /\ tbm = <<>>
    /\ i = 0
    /\ j = 0
    /\ aligned1 = <<>>
    /\ aligned2 = <<>>
    /\ result = <<>>
    /\ error = ""

\* fill_matrix(seq1, seq2) runs, either as line 174 of
\* align_sequences_with_DP or called by the user of the module
FillMatrix ==
    /\ pc = "idle"
    /\ LET filled == fill_matrix(seq1, seq2)
       IN \E entry \in {"align_sequences_with_DP", "fill_matrix"} :
             /\ call' = entry
             /\ score' = filled.score
             /\ tbm' = filled.traceback
    /\ pc' = "filled"
    /\ UNCHANGED <<seq1, seq2, i, j, aligned1, aligned2, result, error, allVars, distVars, matVars>>

\* line 175 of align_sequences_with_DP
AlignInvokeTraceback ==
    /\ pc = "filled"
    /\ call = "align_sequences_with_DP"
    /\ LET r == InvokeTracebackName(seq1, seq2, tbm)
       IN /\ pc' = IF r.ok THEN "returned" ELSE "raised"
          /\ result' = r.value
          /\ error' = r.error
    /\ UNCHANGED <<seq1, seq2, call, score, tbm, i, j, aligned1, aligned2, allVars, distVars, matVars>>

\* the user calls traceback(seq1, seq2, direction matrix): lines 126-128
TracebackEnter ==
    /\ pc = "filled"
    /\ call = "fill_matrix"
    /\ i' = Len(seq1)
    /\ j' = Len(seq2)
    /\ aligned1' = <<>>
    /\ aligned2' = <<>>
    /\ pc' = "loop"
    /\ UNCHANGED <<seq1, seq2, call, score, tbm, result, error, allVars, distVars, matVars>>

TraceAt(branch) ==
    /\ pc = "loop"
    /\ i > 0 \/ j > 0
    /\ TraceBranch(tbm, i, j) = branch
    /\ LET st == TraceStep(seq1, seq2, tbm,
                           [i |-> i, j |-> j, aligned1 |-> aligned1, aligned2 |-> aligned2])
       IN /\ i' = st.i
          /\ j' = st.j
          /\ aligned1' = st.aligned1
          /\ aligned2' = st.aligned2
    /\ UNCHANGED <<seq1, seq2, call, pc, score, tbm, result, error, allVars, distVars, matVars>>

TraceTopEdge == TraceAt("top")
TraceLeftEdge == TraceAt("edge")
TraceDiagonal == TraceAt("diag")
TraceUp == TraceAt("up")
TraceLeft == TraceAt("left")

\* lines 153-156: loop exit, reverse, join, return
TracebackReturn ==
    /\ pc = "loop"
    /\ ~(i > 0 \/ j > 0)
    /\ result' = <<Reverse(aligned1), Reverse(aligned2)>>
    /\ pc' = "returned"
    /\ UNCHANGED <<seq1, seq2, call, score, tbm, i, j, aligned1, aligned2, error, allVars, distVars, matVars>>

NextAlign ==
    \/ FillMatrix
    \/ AlignInvokeTraceback
    \/ TracebackEnter
    \/ TraceTopEdge
    \/ TraceLeftEdge
    \/ TraceDiagonal
    \/ TraceUp
    \/ TraceLeft
    \/ TracebackReturn

SpecAlign == InitAlign /\ [][NextAlign]_vars

\* ------------------------------------------------- properties of the aligner
Strip(s) == SelectSeq(s, LAMBDA ch : ch # "-")

MaxOf(a, b) == IF a >= b THEN a ELSE b

\* +5 for two equal bases, -2 for two different bases, -6 for a gap column
ColumnScore(x, y) ==
    IF x = "-" \/ y = "-" THEN gap ELSE IF x = y THEN match ELSE mismatch

RECURSIVE Rescore(_, _, _)
Rescore(a, b, k) ==
    IF k > Len(a) THEN 0 ELSE ColumnScore(a[k], b[k]) + Rescore(a, b, k + 1)

AlignmentContract(a, b, r) ==
    /\ Len(r[1]) = Len(r[2])
    /\ Len(r[1]) >= MaxOf(Len(a), Len(b))
    /\ Len(r[1]) <= Len(a) + Len(b)
    /\ Strip(r[1]) = a
    /\ Strip(r[2]) = b

\* C1: align(A, B) returns two equal-length strings, of length between
\* max(len A, len B) and len A + len B, that give back A and B when the gaps
\* are deleted.
C1_AlignReturnsGappedInputs ==
    (call = "align_sequences_with_DP" /\ pc # "filled") =>
        /\ pc = "returned"
        /\ AlignmentContract(seq1, seq2, result)

\* C2: re-scoring the alignment returned by align(A, B) column by column
\* gives the final cell of the score matrix.
C2_AlignRescoresToFinalCell ==
    (call = "align_sequences_with_DP" /\ pc # "filled") =>
        /\ pc = "returned"
        /\ Len(result[1]) = Len(result[2])
        /\ Rescore(result[1], result[2], 1) = score[Len(seq1)][Len(seq2)]

\* What the module-level traceback function gives on fill_matrix's output.
TracebackContract ==
    (call = "fill_matrix" /\ pc = "returned") =>
        /\ AlignmentContract(seq1, seq2, result)
        /\ Rescore(result[1], result[2], 1) = score[Len(seq1)][Len(seq2)]

InteriorCells == {c \in (1..Len(seq1)) \X (1..Len(seq2)) : TRUE}

\* the direction recorded at an interior cell obeys diagonal > up > left
RecordedByPriority(r, c) ==
    LET diag == DiagCandidate(seq1, seq2, score, r, c)
        up == UpCandidate(score, r, c)
        left == LeftCandidate(score, r, c)
        mx == Max3(diag, up, left)
    IN /\ score[r][c] = mx
       /\ (diag = mx) => tbm[r][c] = DIAGONAL
       /\ (up = mx /\ diag # mx) => tbm[r][c] = UP
       /\ (tbm[r][c] = LEFT) => (left > diag /\ left > up)
       /\ tbm[r][c] \in {DIAGONAL, UP, LEFT}

\* the move traceback makes at interior cursor (i, j) is the priority choice
MovesByPriority ==
    LET diag == DiagCandidate(seq1, seq2, score, i, j)
        up == UpCandidate(score, i, j)
        left == LeftCandidate(score, i, j)
        mx == Max3(diag, up, left)
    IN IF diag = mx THEN
           /\ i' = i - 1 /\ j' = j - 1
           /\ aligned1' = Append(aligned1, seq1[i])
           /\ aligned2' = Append(aligned2, seq2[j])
       ELSE IF up = mx THEN
           /\ i' = i - 1 /\ j' = j
           /\ aligned1' = Append(aligned1, seq1[i])
           /\ aligned2' = Append(aligned2, "-")
       ELSE
           /\ i' = i /\ j' = j - 1
           /\ aligned1' = Append(aligned1, "-")
           /\ aligned2' = Append(aligned2, seq2[j])

\* C10: every interior cell records diagonal when the diagonal candidate is
\* the maximum, up when up is and diagonal is not, left only when left is
\* strictly greater than both (checked on the matrices handed to traceback);
\* and traceback, at every interior cell it visits, makes the move of that
\* priority.
C10_TieBreakPriority ==
    [][/\ (pc = "filled" /\ pc' = "loop") =>
             \A c \in InteriorCells : RecordedByPriority(c[1], c[2])
       /\ (pc = "loop" /\ i > 0 /\ j > 0) =>
             /\ RecordedByPriority(i, j)
             /\ MovesByPriority]_vars

\* traceback stands on an interior cell where up and left tie above diagonal
C10_Witness ==
    /\ pc = "loop" /\ i > 0 /\ j > 0
    /\ UpCandidate(score, i, j) = LeftCandidate(score, i, j)
    /\ UpCandidate(score, i, j) > DiagCandidate(seq1, seq2, score, i, j)
    /\ tbm[i][j] = UP
\* ------------------------------------------------- P3.compute_dist
Micro == 1000 * 1000
\* 30.0
Saturation == 30 * Micro

MinOf(a, b) == IF a <= b THEN a ELSE b

\* a plausible slip: only the first character tested for a gap
ColumnStepGapInFirstOnly(acc, char_a, char_b) ==
    IF char_a = "-" THEN acc
    ELSE [comparable |-> acc.comparable + 1,
          mismatches |-> IF char_a # char_b THEN acc.mismatches + 1 ELSE acc.mismatches]

\* lines 82-86: the body of the zip loop
ColumnStep(acc, char_a, char_b) ==
    IF "-" \in {char_a, char_b} THEN acc
    ELSE [comparable |-> acc.comparable + 1,
          mismatches |-> IF char_a # char_b THEN acc.mismatches + 1 ELSE acc.mismatches]

\* line 81: zip stops at the end of the shorter argument
RECURSIVE ZipLoop(_, _, _, _)
ZipLoop(a, b, k, acc) ==
    IF k > MinOf(Len(a), Len(b)) THEN acc
    ELSE ZipLoop(a, b, k + 1, ColumnStep(acc, a[k], b[k]))

\* a plausible slip: strict comparison with the threshold
AtLeastThresholdStrict(m, c) == 4 * m > 3 * c

\* lines 91-92: p_distance = mismatches / comparable, p_distance >= 0.75.
\* 0.75 is a float64 number and the division is correctly rounded, so for
\* counts below 2^52 the comparison is that of the rationals.
AtLeastThreshold(m, c) == 4 * m >= 3 * c

\* ---- math.log on float64, to about 1e-11: a fixed-point number is
\* <<w, f1, f2, f3>> = w + f1 / Limb + f2 / Limb^2 + f3 / Limb^3
Limb == 10000
FxZero == <<0, 0, 0, 0>>
FxOne == <<1, 0, 0, 0>>

\* x * p for a natural number p (p below 200000)
FxMul(x, p) ==
    LET t4 == x[4] * p
        t3 == x[3] * p + (t4 \div Limb)
        t2 == x[2] * p + (t3 \div Limb)
        t1 == x[1] * p + (t2 \div Limb)
    IN <<t1, t2 % Limb, t3 % Limb, t4 % Limb>>

\* x / q for a positive natural number q (q below 200000), rounded down
FxDiv(x, q) ==
    LET u2 == (x[1] % q) * Limb + x[2]
        u3 == (u2 % q) * Limb + x[3]
        u4 == (u3 % q) * Limb + x[4]
    IN <<x[1] \div q, u2 \div q, u3 \div q, u4 \div q>>

FxAdd(x, y) ==
    LET t4 == x[4] + y[4]
        t3 == x[3] + y[3] + (t4 \div Limb)
        t2 == x[2] + y[2] + (t3 \div Limb)
        t1 == x[1] + y[1] + (t2 \div Limb)
    IN <<t1, t2 % Limb, t3 % Limb, t4 % Limb>>

\* x - y for x >= y
FxSub(x, y) ==
    LET t4 == x[4] - y[4]
        t3 == x[3] - y[3] + (t4 \div Limb)
        t2 == x[2] - y[2] + (t3 \div Limb)
        t1 == x[1] - y[1] + (t2 \div Limb)
    IN <<t1, t2 % Limb, t3 % Limb, t4 % Limb>>

\* the nearest whole number of 1e-6 units
FxToMicro(x) ==
    x[1] * Micro + x[2] * 100 + (x[3] \div 100)
        + (IF (x[3] % 100) * Limb + x[4] >= 500000 THEN 1 ELSE 0)

\* sum over odd k of (p/q)^k / k, LogTerms terms from `term` = (p/q)^k
RECURSIVE ArtanhSeries(_, _, _, _, _)
ArtanhSeries(term, p, q, k, n) ==
    IF n = 0 \/ term = FxZero THEN FxZero
    ELSE FxAdd(FxDiv(term, k),
               ArtanhSeries(FxDiv(FxMul(FxDiv(FxMul(term, p), q), p), q), p, q, k + 2, n - 1))

\* artanh(p / q) for 0 <= 3 p <= q: each term is below a ninth of the one
\* before, so the terms after the first 12 add up to less than 1e-12
Artanh(p, q) == ArtanhSeries(FxDiv(FxMul(FxOne, p), q), p, q, 1, LogTerms)

\* log(2) = 2 artanh(1/3)
Ln2 == FxMul(Artanh(1, 3), 2)

\* the largest k with 2^k <= n
RECURSIVE Log2Floor(_)
Log2Floor(n) == IF n < 2 THEN 0 ELSE 1 + Log2Floor(n \div 2)

\* log(n) for a natural number n >= 1: with b = 2^k <= n < 2 b,
\* log(n) = k log(2) + 2 artanh((n - b) / (n + b))
Ln(n) ==
    LET k == Log2Floor(n)
        b == 2 ^ k
    IN FxAdd(FxMul(Ln2, k), FxMul(Artanh(n - b, n + b), 2))

\* line 98: -0.75 * log(num / den) for 0 < num <= den, rounded to 1e-6 units;
\* -log(num / den) = log(den) - log(num)
MinusThreeQuartersLog(num, den) ==
    FxToMicro(FxDiv(FxMul(FxSub(Ln(den), Ln(num)), 3), 4))

\* lines 88-98: the result from the two counters
DistFromCounts(c, m) ==
    IF c = 0 THEN [ok |-> TRUE, branch |-> "zero", value |-> 0]
    ELSE IF AtLeastThreshold(m, c)
         THEN [ok |-> TRUE, branch |-> "saturation", value |-> Saturation]
    ELSE \* correction = 1 - (4/3) p = (3c - 4m) / (3c)
         LET num == 3 * c - 4 * m
             den == 3 * c
         IN IF ~(num > 0)
            THEN [ok |-> FALSE, branch |-> "malformed", value |-> 0]
            ELSE [ok |-> TRUE, branch |-> "log", value |-> MinusThreeQuartersLog(num, den)]

compute_dist(a, b) ==
    LET acc == ZipLoop(a, b, 1, [comparable |-> 0, mismatches |-> 0])
    IN DistFromCounts(acc.comparable, acc.mismatches)

\* ------------------------------------------------- compute_dist machine
DistChars == {"A", "C", "-"}

InitDist ==
    /\ IdleAlign /\ IdleAll /\ IdleMatrix
    /\ \E n \in 1..DistLen :
          /\ aligned_a \in [1..n -> DistChars]
          /\ aligned_b \in [1..n -> DistChars]
    /\ col = 1
    /\ comparable = 0
    /\ mismatches = 0
    /\ dpc = "loop"
    /\ dist = <<>>

\* lines 81-86: one column
DistColumn ==
    /\ dpc = "loop"
    /\ col <= MinOf(Len(aligned_a), Len(aligned_b))
    /\ LET acc == ColumnStep([comparable |-> comparable, mismatches |-> mismatches],
                             aligned_a[col], aligned_b[col])
       IN /\ comparable' = acc.comparable
          /\ mismatches' = acc.mismatches
    /\ col' = col + 1
    /\ UNCHANGED <<aligned_a, aligned_b, dpc, dist, alignVars, allVars, matVars>>

\* lines 88-98: after the loop
DistReturn ==
    /\ dpc = "loop"
    /\ col > MinOf(Len(aligned_a), Len(aligned_b))
    /\ LET r == DistFromCounts(comparable, mismatches)
       IN /\ dist' = r
          /\ dpc' = IF r.ok THEN "returned" ELSE "malformed"
    /\ UNCHANGED <<aligned_a, aligned_b, col, comparable, mismatches,
                   alignVars, allVars, matVars>>

NextDist ==
    \/ DistColumn
    \/ DistReturn

SpecDist == InitDist /\ [][NextDist]_vars

\* ------------------------------------------------- properties of compute_dist
Columns == 1..Len(aligned_a)
ComparableColumns == {k \in Columns : aligned_a[k] # "-" /\ aligned_b[k] # "-"}
MismatchColumns == {k \in ComparableColumns : aligned_a[k] # aligned_b[k]}

\* C8: the result is exactly 30.0 whenever comparable > 0 and
\* 4 * mismatches >= 3 * comparable, and the logarithm branch, whose value is
\* not 30.0, is taken only when 4 * mismatches < 3 * comparable.
C8_SaturationAtThreeQuarters ==
    dpc # "loop" =>
        LET c == Cardinality(ComparableColumns)
            m == Cardinality(MismatchColumns)
        IN /\ dpc = "returned"
           /\ (c > 0 /\ 4 * m >= 3 * c) => (dist.branch = "saturation" /\ dist.value = Saturation)
           /\ (dist.branch = "log") => (4 * m < 3 * c /\ dist.value # Saturation)
           /\ (dist.value # Saturation) => (c = 0 \/ 4 * m < 3 * c)

\* the quotient is exactly 0.75, with mismatches and matches both present
C8_Witness ==
    /\ dpc = "returned"
    /\ Cardinality(ComparableColumns) = 4
    /\ Cardinality(MismatchColumns) = 3
    /\ dist.value = Saturation

\* C9: distance(A, B) and distance(B, A) take the same branch with the same
\* counts and return the same value.
C9_DistanceSymmetric ==
    dpc # "loop" =>
        LET back == ZipLoop(aligned_b, aligned_a, 1, [comparable |-> 0, mismatches |-> 0])
        IN /\ back.comparable = comparable
           /\ back.mismatches = mismatches
           /\ compute_dist(aligned_b, aligned_a) = dist

\* a gap faces a base, another column mismatches, and the logarithm is taken
C9_Witness ==
    /\ dpc = "returned"
    /\ dist.branch = "log"
    /\ dist.value > 0
    /\ \E k \in Columns : aligned_a[k] = "-" /\ aligned_b[k] # "-"
    /\ aligned_a # aligned_b
\* ------------------------------------------------- P3.validate_alignment_map
VALID_CHARS == {"A", "C", "G", "T", "a", "c", "g", "t", "-"}

\* A dict item is [shape, key, value].  shape names the isinstance / len test
\* the item fails ("ok" if none); key is a pair of integers and value a pair of
\* strings when the shape allows it, placeholders otherwise.
Range(f) == {f[x] : x \in DOMAIN f}

Keys(d) == {d[k].key : k \in DOMAIN d}

\* d[key] = value on an insertion-ordered dict
DictSet(d, key, value) ==
    IF key \in Keys(d)
    THEN [k \in DOMAIN d |-> IF d[k].key = key THEN [key |-> key, value |-> value] ELSE d[k]]
    ELSE Append(d, [key |-> key, value |-> value])

\* a plausible slip: the self-pair test left out
NotSelfPairUnchecked(a, b) == TRUE

\* line 40
NotSelfPair(a, b) == a # b

\* line 42
OrderedKey(key) == IF key[1] < key[2] THEN key ELSE <<key[2], key[1]>>

\* a plausible slip: a later item silently replaces an earlier one
NotYetStoredUnchecked(ordered_key, d) == TRUE

\* line 58
NotYetStored(ordered_key, d) == ordered_key \notin Keys(d)

\* lines 36-58: every ensure of the loop body, in order
ItemAccepted(d, it) ==
    /\ it.shape # "key_not_pair"                                   \* line 36
    /\ it.shape # "key_not_int"                                    \* line 38
    /\ NotSelfPair(it.key[1], it.key[2])                           \* line 40
    /\ it.shape # "value_not_pair"                                 \* line 45
    /\ it.shape # "value_not_str"                                  \* line 47
    /\ Len(it.value[1]) = Len(it.value[2]) /\ Len(it.value[1]) > 0 \* line 48
    /\ Range(it.value[1]) \subseteq VALID_CHARS                    \* line 50
    /\ Range(it.value[2]) \subseteq VALID_CHARS
    /\ NotYetStored(OrderedKey(it.key), d)                         \* line 58

\* lines 34-61: one iteration of the loop over alignment_map.items()
ValidateItem(st, it) ==
    IF ItemAccepted(st.normalised, it)
    THEN [ok |-> TRUE,
          normalised |-> DictSet(st.normalised, OrderedKey(it.key), it.value),
          identifiers |-> st.identifiers \cup {it.key[1], it.key[2]}]
    ELSE [ok |-> FALSE, normalised |-> <<>>, identifiers |-> {}]

\* sorted(identifiers)
RECURSIVE sorted(_)
sorted(S) ==
    IF S = {} THEN <<>>
    ELSE LET least == CHOOSE x \in S : \A y \in S : x <= y
         IN <<least>> \o sorted(S \ {least})

\* set(combinations(ids, 2))
combinations2(ids) ==
    {<<ids[pq[1]], ids[pq[2]]>> : pq \in {x \in (DOMAIN ids) \X (DOMAIN ids) : x[1] < x[2]}}

\* a plausible slip: only extraneous pairs are detected
ExactPairsSubsetOnly(expected_pairs, keys) == keys \subseteq expected_pairs

\* line 70
ExactPairs(expected_pairs, keys) == expected_pairs = keys

\* lines 63-72: after the loop
ValidateTail(d, ids) ==
    LET srt == sorted(ids)
    IN IF Len(srt) >= 2 /\ ExactPairs(combinations2(srt), Keys(d))
       THEN [ok |-> TRUE, ids_sorted |-> srt, normalised |-> d]
       ELSE [ok |-> FALSE, ids_sorted |-> <<>>, normalised |-> <<>>]

RECURSIVE ValidateLoop(_, _, _)
ValidateLoop(items, k, st) ==
    IF k > Len(items) \/ ~st.ok THEN st
    ELSE ValidateLoop(items, k + 1, ValidateItem(st, items[k]))

\* lines 27-72: alignment_map is [isdict, items]
validate_alignment_map(alignment_map) ==
    IF ~(alignment_map.isdict /\ alignment_map.items # <<>>)          \* line 27
    THEN [ok |-> FALSE, ids_sorted |-> <<>>, normalised |-> <<>>]
    ELSE LET st == ValidateLoop(alignment_map.items, 1,
                                [ok |-> TRUE, normalised |-> <<>>, identifiers |-> {}])
         IN IF st.ok THEN ValidateTail(st.normalised, st.identifiers)
            ELSE [ok |-> FALSE, ids_sorted |-> <<>>, normalised |-> <<>>]

\* ------------------------------------------------- P3.ComputeDistMatrix
\* line 117: rank of an identifier in ids_sorted, from 0
index_map(ids, seq_id) == (CHOOSE p \in DOMAIN ids : ids[p] = seq_id) - 1

\* line 118
ZeroMatrix(size) == [r \in 0..(size - 1) |-> [c \in 0..(size - 1) |-> 0]]

\* a plausible slip: the mirrored cell is not written
WriteCellsOneWay(mx, idx_i, idx_j, d) == [mx EXCEPT ![idx_i][idx_j] = d]

\* lines 123-124
WriteCells(mx, idx_i, idx_j, d) ==
    [[mx EXCEPT ![idx_i][idx_j] = d] EXCEPT ![idx_j][idx_i] = d]

\* ------------------------------------------------- ComputeDistMatrix machine
\* The items of the argument are given to the validation loop one at a time;
\* `seen` holds the raw keys given so far (the keys of a dict are distinct),
\* and the argument ends wherever the run leaves the loop.
IdSet == 1..MaxId

SampleValues ==
    { << <<"A", "A">>, <<"A", "A">> >>,      \* valid, no mismatch
      << <<"A", "A">>, <<"A", "T">> >> }     \* valid, one mismatch in two

BadValues ==
    { << <<"A">>, <<"A", "A">> >>,           \* unequal lengths
      << <<>>, <<>> >>,                      \* empty strings
      << <<"A", "N">>, <<"A", "A">> >> }     \* a character outside VALID_CHARS

Items ==
    {[shape |-> "ok", key |-> k, value |-> v] :
        k \in IdSet \X IdSet, v \in SampleValues \cup BadValues}
    \cup
    {[shape |-> s, key |-> <<1, 2>>, value |-> << <<"A", "A">>, <<"A", "A">> >>] :
        s \in {"key_not_pair", "key_not_int", "value_not_pair", "value_not_str"}}

InitMatrix ==
    /\ IdleAlign /\ IdleAll /\ IdleDist
    /\ item = <<>>
    /\ seen = {}
    /\ normalised = <<>>
    /\ identifiers = {}
    /\ ids_sorted = <<>>
    /\ matrix = <<>>
    /\ widx = 0
    /\ mpc = "called"

\* line 27: the argument is a dict that is not empty, or it is rejected
CheckArgument ==
    /\ mpc = "called"
    /\ \E kind \in {"dict", "empty_dict", "not_dict"} :
          mpc' = IF kind = "dict" THEN "loop" ELSE "malformed"
    /\ UNCHANGED <<item, seen, normalised, identifiers, ids_sorted, matrix, widx,
                   alignVars, allVars, distVars>>

\* lines 34-61: the loop takes the next item of the argument
ValidateNextItem ==
    /\ mpc = "loop"
    /\ Cardinality(seen) < MaxEntries
    /\ \E it \in Items :
          /\ it.key \notin seen
          /\ LET st == ValidateItem([ok |-> TRUE, normalised |-> normalised,
                                     identifiers |-> identifiers], it)
             IN /\ item' = it
                /\ seen' = seen \cup {it.key}
                /\ normalised' = st.normalised
                /\ identifiers' = st.identifiers
                /\ mpc' = IF st.ok THEN "loop" ELSE "malformed"
    /\ UNCHANGED <<ids_sorted, matrix, widx, alignVars, allVars, distVars>>

\* lines 63-72 and 116-118: the argument has no more items
ValidateReturn ==
    /\ mpc = "loop"
    /\ seen # {}
    /\ LET r == ValidateTail(normalised, identifiers)
       IN /\ ids_sorted' = r.ids_sorted
          /\ normalised' = r.normalised
          /\ identifiers' = IF r.ok THEN identifiers ELSE {}
          /\ mpc' = IF r.ok THEN "matrix" ELSE "malformed"
          /\ matrix' = IF r.ok THEN ZeroMatrix(Len(r.ids_sorted)) ELSE <<>>
          /\ widx' = IF r.ok THEN 1 ELSE 0
    /\ item' = <<>>
    /\ UNCHANGED <<seen, alignVars, allVars, distVars>>

\* lines 120-124: one iteration of the loop over normalised.items()
MatrixWrite ==
    /\ mpc = "matrix"
    /\ widx <= Len(normalised)
    /\ LET e == normalised[widx]
           d == compute_dist(e.value[1], e.value[2])
           idx_i == index_map(ids_sorted, e.key[1])
           idx_j == index_map(ids_sorted, e.key[2])
       IN IF d.ok
          THEN /\ matrix' = WriteCells(matrix, idx_i, idx_j, d.value)
               /\ widx' = widx + 1
               /\ mpc' = mpc
          ELSE /\ matrix' = <<>>
               /\ widx' = 0
               /\ mpc' = "malformed"
    /\ UNCHANGED <<item, seen, normalised, identifiers, ids_sorted,
                   alignVars, allVars, distVars>>

\* line 126
MatrixReturn ==
    /\ mpc = "matrix"
    /\ widx > Len(normalised)
    /\ mpc' = "returned"
    /\ UNCHANGED <<item, seen, normalised, identifiers, ids_sorted, matrix, widx,
                   alignVars, allVars, distVars>>

NextMatrix ==
    \/ CheckArgument
    \/ ValidateNextItem
    \/ ValidateReturn
    \/ MatrixWrite
    \/ MatrixReturn

SpecMatrix == InitMatrix /\ [][NextMatrix]_vars

\* ------------------------------------------------- properties of validation
\* the unordered pairs of distinct elements of S, smaller first
AllPairs(S) == {ab \in S \X S : ab[1] < ab[2]}

\* the identifiers the raw keys given so far mention
Mentioned == UNION {{key[1], key[2]} : key \in seen}

\* this step is the end of the validation loop (lines 63-72)
LoopEnds == mpc = "loop" /\ item' = <<>>

\* this step is an iteration of the validation loop on a well-shaped item
LoopTakes == mpc = "loop" /\ item' # <<>> /\ item'.shape = "ok"

\* C3: a map over n >= 3 identifiers that lacks one of their unordered pairs
\* is rejected, and a map that validates has as keys exactly the
\* |S|(|S|-1)/2 pairs (a, b), a < b, of the returned sorted identifiers.
C3_PairCompleteness ==
    [][LoopEnds =>
          /\ (Cardinality(identifiers) >= 3 /\ AllPairs(identifiers) # Keys(normalised))
                => mpc' = "malformed"
          /\ mpc' # "malformed" =>
                /\ ids_sorted' = sorted(Mentioned)
                /\ Keys(normalised') = AllPairs(Range(ids_sorted'))
                /\ 2 * Len(normalised') = Len(ids_sorted') * (Len(ids_sorted') - 1)
                /\ 2 * Cardinality(Keys(normalised')) = Len(ids_sorted') * (Len(ids_sorted') - 1)]_vars

\* the map {(1,2), (3,1)}, which lacks the pair (2,3), has been rejected
C3_Witness ==
    /\ mpc = "malformed"
    /\ item = <<>>
    /\ seen = {<<1, 2>>, <<3, 1>>}

\* C5: an item whose canonical key is already stored is rejected when it is
\* processed; stored alignments are never replaced and no item is dropped.
C5_DuplicateRejected ==
    [][/\ (LoopTakes /\ OrderedKey(item'.key) \in Keys(normalised)) => mpc' = "malformed"
       /\ (mpc = "loop" /\ mpc' # "malformed") =>
             /\ \A k \in DOMAIN normalised : normalised'[k] = normalised[k]
             /\ Len(normalised') = Cardinality(seen')]_vars

\* (2,1) came after (1,2), with a valid alignment, and the call was rejected
C5_Witness ==
    /\ mpc = "malformed"
    /\ item # <<>>
    /\ item.shape = "ok"
    /\ item.key = <<2, 1>>
    /\ item.value \in SampleValues
    /\ seen = {<<1, 2>>, <<2, 1>>}

\* C6: an item whose key is a pair of equal integers is rejected when it is
\* processed, wherever it stands in the map; the matrix loop never writes a
\* diagonal cell, and the diagonal stays 0.0.
C6_SelfPairRejected ==
    [][/\ (LoopTakes /\ item'.key[1] = item'.key[2]) => mpc' = "malformed"
       /\ (mpc = "matrix" /\ mpc' = "matrix") =>
             /\ \A e \in Range(normalised) : e.key[1] # e.key[2]
             /\ \A r \in DOMAIN matrix : matrix'[r][r] = matrix[r][r] /\ matrix[r][r] = 0]_vars

\* the self-pair (2,2) came after two valid items and the call was rejected
C6_Witness ==
    /\ mpc = "malformed"
    /\ item # <<>>
    /\ item.shape = "ok"
    /\ item.key = <<2, 2>>
    /\ item.value \in SampleValues
    /\ Cardinality(seen) = 3

\* the stored alignment of the pair {a, b}
AlignmentOf(a, b) ==
    LET e == CHOOSE x \in Range(normalised) : x.key = <<a, b>> IN e.value

Pos(id) == index_map(ids_sorted, id)

Scenario4 ==
    {[key |-> <<1, 2>>, value |-> << <<"A", "A">>, <<"A", "A">> >>],
     [key |-> <<1, 3>>, value |-> << <<"A", "A">>, <<"A", "T">> >>],
     [key |-> <<2, 3>>, value |-> << <<"A", "A">>, <<"A", "T">> >>]}

\* C4: the returned matrix has one row and column per identifier, in sorted
\* order; the cells of a pair {a, b} both hold the distance of its alignment,
\* the diagonal is 0.0; for the three-identifier scenario the entries of
\* (1,3) and (2,3) are equal.
C4_SymmetricMatrix ==
    mpc = "returned" =>
        /\ DOMAIN matrix = 0..(Len(ids_sorted) - 1)
        /\ \A r \in DOMAIN matrix : DOMAIN matrix[r] = 0..(Len(ids_sorted) - 1)
        /\ ids_sorted = sorted(Mentioned)
        /\ \A ab \in AllPairs(Mentioned) :
              LET d == compute_dist(AlignmentOf(ab[1], ab[2])[1], AlignmentOf(ab[1], ab[2])[2])
              IN /\ matrix[Pos(ab[1])][Pos(ab[2])] = d.value
                 /\ matrix[Pos(ab[2])][Pos(ab[1])] = d.value
        /\ \A r \in DOMAIN matrix : matrix[r][r] = 0
        /\ Range(normalised) = Scenario4 =>
              matrix[Pos(1)][Pos(3)] = matrix[Pos(2)][Pos(3)]

\* the three-identifier scenario has been turned into its matrix
C4_Witness ==
    /\ mpc = "returned"
    /\ Range(normalised) = Scenario4
    /\ matrix[Pos(1)][Pos(3)] = matrix[Pos(2)][Pos(3)]
    /\ matrix[Pos(1)][Pos(3)] > 0
    /\ matrix[Pos(1)][Pos(2)] = 0
\* ------------------------------------------------- P2.input_check
\* str.upper on one character: every cased character is mapped, the others
\* are left as they are (the ASCII letters are the cased characters here)
LowerCase == <<"a", "b", "c", "d", "e", "f", "g", "h", "i", "j", "k", "l", "m",
               "n", "o", "p", "q", "r", "s", "t", "u", "v", "w", "x", "y", "z">>
UpperCase == <<"A", "B", "C", "D", "E", "F", "G", "H", "I", "J", "K", "L", "M",
               "N", "O", "P", "Q", "R", "S", "T", "U", "V", "W", "X", "Y", "Z">>

Upper(ch) ==
    IF \E k \in 1..Len(LowerCase) : LowerCase[k] = ch
    THEN UpperCase[CHOOSE k \in 1..Len(LowerCase) : LowerCase[k] = ch]
    ELSE ch

\* line 27: seq.replace(" ", "").upper()
Clean(sq) ==
    LET kept == SelectSeq(sq, LAMBDA ch : ch # " ")
    IN [k \in 1..Len(kept) |-> Upper(kept[k])]

\* lines 20-28: the argument is [shape, items]; shape names the isinstance
\* test it fails ("ok" if none), items are <<label, sequence>> pairs
input_check(lop) ==
    IF lop.shape # "ok"
    THEN [ok |-> FALSE, value |-> <<>>]
    ELSE [ok |-> TRUE,
          value |-> [k \in 1..Len(lop.items) |-> <<lop.items[k][1], Clean(lop.items[k][2])>>]]

\* ------------------------------------------------- P2.generate_all_pairs
\* lines 43-45: the two nested loops, indices from 0
RECURSIVE PairsFrom(_, _, _, _)
PairsFrom(n, a, b, acc) ==
    IF a >= n THEN acc
    ELSE IF b >= n THEN PairsFrom(n, a + 1, a + 2, acc)
    ELSE PairsFrom(n, a, b + 1, Append(acc, <<a, b>>))

generate_all_pairs(lop) == PairsFrom(Len(lop), 0, 1, <<>>)

\* ------------------------------------------------- AlignByDP machine
OrchChars == {"A", "C", "t", " "}
Labels == {"Org"}

InitAll ==
    /\ IdleAlign /\ IdleDist /\ IdleMatrix
    /\ \/ \E n \in 0..MaxSeqs :
             \E its \in [1..n -> Labels \X SeqsUpTo(OrchChars, MaxSeqLen)] :
                list_of_pairs = [shape |-> "ok", items |-> its]
       \/ \E sh \in {"not_list", "item_not_pair", "item_not_str"} :
             list_of_pairs = [shape |-> sh, items |-> <<>>]
    /\ sequences = <<>>
    /\ pairs = <<>>
    /\ pidx = 0
    /\ results = <<>>
    /\ opc = "called"
    /\ oerror = ""
    /\ validated = <<>>

\* lines 196-198: input_check, the empty dict, the list of pairs
AlignByDPEnter ==
    /\ opc = "called"
    /\ LET checked == input_check(list_of_pairs)
       IN IF checked.ok
          THEN /\ sequences' = checked.value
               /\ pairs' = generate_all_pairs(checked.value)
               /\ pidx' = 1
               /\ opc' = "loop"
               /\ oerror' = oerror
          ELSE /\ opc' = "raised"
               /\ oerror' = "malformed input"
               /\ UNCHANGED <<sequences, pairs, pidx>>
    /\ UNCHANGED <<list_of_pairs, results, validated, alignVars, distVars, matVars>>

\* lines 198-201: one iteration of the for loop
AlignNextPair ==
    /\ opc = "loop"
    /\ pidx <= Len(pairs)
    /\ LET a == pairs[pidx][1]
           b == pairs[pidx][2]
           r == align_sequences_with_DP(sequences[a + 1][2], sequences[b + 1][2])
       IN IF r.ok
          THEN /\ results' = DictSet(results, <<a, b>>, r.value)
               /\ pidx' = pidx + 1
               /\ UNCHANGED <<opc, oerror>>
          ELSE /\ opc' = "raised"
               /\ oerror' = r.error
               /\ UNCHANGED <<results, pidx>>
    /\ UNCHANGED <<list_of_pairs, sequences, pairs, validated, alignVars, distVars, matVars>>

\* line 202
AlignByDPReturn ==
    /\ opc = "loop"
    /\ pidx > Len(pairs)
    /\ opc' = "returned"
    /\ UNCHANGED <<list_of_pairs, sequences, pairs, pidx, results, oerror, validated,
                   alignVars, distVars, matVars>>

\* the returned dict is handed to validate_alignment_map
ValidateResults ==
    /\ opc = "returned"
    /\ validated' = validate_alignment_map(
          [isdict |-> TRUE,
           items |-> [k \in 1..Len(results) |->
                        [shape |-> "ok", key |-> results[k].key, value |-> results[k].value]]])
    /\ opc' = "consumed"
    /\ UNCHANGED <<list_of_pairs, sequences, pairs, pidx, results, oerror,
                   alignVars, distVars, matVars>>

NextAll ==
    \/ AlignByDPEnter
    \/ AlignNextPair
    \/ AlignByDPReturn
    \/ ValidateResults

SpecAll == InitAll /\ [][NextAll]_vars

\* ------------------------------------------------- properties of AlignByDP
\* n >= 2 non-empty sequences over {A, C, G, T}
ClaimedInput ==
    /\ list_of_pairs.shape = "ok"
    /\ Len(list_of_pairs.items) >= 2
    /\ \A k \in DOMAIN list_of_pairs.items :
          /\ list_of_pairs.items[k][2] # <<>>
          /\ Range(list_of_pairs.items[k][2]) \subseteq Bases

\* the alignment fill_matrix and the traceback function give for a pair
Aligned(a, b) == traceback(a, b, fill_matrix(a, b).traceback)

\* C7: AlignByDP returns a dict whose keys are exactly the pairs (a, b),
\* 0 <= a < b < n, in lexicographic order, each with the alignment of its two
\* sequences, and validate accepts it with sortedIds = [0, ..., n-1].
C7_AlignAllComplete ==
    (ClaimedInput /\ opc \notin {"called", "loop"}) =>
        LET n == Len(list_of_pairs.items)
        IN /\ opc # "raised"
           /\ [k \in DOMAIN results |-> results[k].key] = generate_all_pairs(list_of_pairs.items)
           /\ Keys(results) = {ab \in (0..(n - 1)) \X (0..(n - 1)) : ab[1] < ab[2]}
           /\ 2 * Len(results) = n * (n - 1)
           /\ \A k \in DOMAIN results :
                 results[k].value = Aligned(list_of_pairs.items[results[k].key[1] + 1][2],
                                            list_of_pairs.items[results[k].key[2] + 1][2])
           /\ opc = "consumed" =>
                 /\ validated.ok
                 /\ validated.ids_sorted = [k \in 1..n |-> k - 1]
====
